---- MODULE Spec2Model ----
(***************************************************************************)
(* A model of `card`, a command-line client of the privacy.com card API    *)
(* (src/src/main.rs).  One invocation of the program is one run: main      *)
(* dispatches to one of three handlers, the handler reads or writes the    *)
(* key file and, for the list and create flows, sends one HTTP request.    *)
(* The file system persists from run to run; everything else is per run.   *)
(*                                                                         *)
(* Option<T> is a sequence of length 0 (None) or 1 (Some).  A path is the  *)
(* sequence of its components, <<>> being the root directory.  A text (a   *)
(* printed line, a response body) is a sequence of string tokens.          *)
(***************************************************************************)
EXTENDS Naturals, Sequences, FiniteSets, TLC

VARIABLES
    fs,             \* the file system: path -> [kind, content]
    saves,          \* history: per path, the secrets of the latest successful saves
    pc,             \* where the run is: idle, default, auth, create, send, await, listed, done
    argv,           \* the parsed command line of the run
    env,            \* the environment variables of the run
    xdg_data_path,  \* the handler's local xdg_data_path (Option<PathBuf>)
    api_key,        \* ApiClient.api_key (Option: None until the client is built)
    request,        \* the request built by ApiClient::request, not yet sent (Option)
    sent,           \* every request handed to the network in this run, in order
    inflight,       \* requests on the wire, not yet answered
    response,       \* what came back for the request (Option)
    stdout,         \* lines printed to stdout in this run
    stderr,         \* lines printed to stderr in this run
    exit,           \* running, ok (main returned) or panic
    browser,        \* unopened, opened or failed (open::that)
    prompted,       \* whether the secret key prompt was shown
    secret_key,     \* the auth flow's local secret_key (Option)
    cards,          \* the Cards value returned by list (Option)
    open            \* the handler's local `open`: the cards kept by the filter

vars == <<fs, saves, pc, argv, env, xdg_data_path, api_key, request, sent, inflight,
          response, stdout, stderr, exit, browser, prompted, secret_key, cards, open>>

None == <<>>
Some(v) == <<v>>

----------------------------------------------------------------------------
(* Bounds and input sets *)

MaxSaves == 2       \* how many successful saves per path the history keeps
MaxCards == 3       \* longest card list given to the filter

Secrets == {"sk_live_abc", "sk2"}
Names == {"Groceries", "Gas"}
\* u32 amounts; TLC integers end at 2^31 - 1, the largest amount tried.
Amounts == {0, 5000, 2147483647}
Pans == {"4111111111111111"}
Cvvs == {"123"}
CardStates == {"OPEN", "open", "OPEN ", "CLOSED"}

XdgValues == {<<"data">>}
HomeValues == {<<"home">>}

----------------------------------------------------------------------------
(* Constants of the program *)

BASE_URL == "https://api.privacy.com/v1/"
KeyRelPath == <<".local", "share", "card", "key">>
AuthUrl == "https://app.privacy.com/account"

MsgNoXdg == <<"Cannot determine XDG data directory.">>
MsgPleaseAuth == <<"Please run 'card auth' to login to privacy.com">>
MsgReadError(e) == <<"Error reading key file: ", e>>
MsgOpening == <<"Opening '", AuthUrl, "' in your browser...">>
MsgOpenFailed == <<"Failed to open the authentication URL.">>
MsgPrompt == <<"Enter your secret key: ">>
MsgMkdirFailed(e) == <<"Failed to create directory: ", e>>
MsgSaved == <<"Key saved successfully.">>
MsgSaveFailed(e) == <<"Failed to save key: ", e>>
MsgCreated == <<"Card created">>
MsgPanic(m) == <<"thread 'main' panicked: ", m>>

----------------------------------------------------------------------------
(* Paths and the file system (std::path, std::fs) *)

Prefixes(p) == {SubSeq(p, 1, n) : n \in 1..Len(p)}

\* PathBuf::push of a relative path: the components are appended.
push(path, rel) == path \o rel

\* Path::parent: None for the root.
parent(path) == IF path = <<>> THEN None ELSE Some(SubSeq(path, 1, Len(path) - 1))

Envs == [XDG_DATA_HOME : {None} \cup {Some(x) : x \in XdgValues},
         HOME : {None} \cup {Some(h) : h \in HomeValues}]

get_xdg_data_home(e) ==
    IF e.XDG_DATA_HOME # None THEN Some(e.XDG_DATA_HOME[1])
    ELSE IF e.HOME # None THEN Some(push(e.HOME[1], KeyRelPath))
    ELSE None

KeyPaths == {get_xdg_data_home(e)[1] : e \in {x \in Envs : get_xdg_data_home(x) # None}}
FsPaths == UNION {Prefixes(p) : p \in KeyPaths}

Absent == [kind |-> "absent", content |-> ""]
Dir == [kind |-> "dir", content |-> ""]
File(c) == [kind |-> "file", content |-> c]

Kind(f, p) == IF p = <<>> THEN "dir" ELSE f[p].kind

\* Path::exists
exists(f, p) == Kind(f, p) # "absent"

Ok(v) == [ok |-> TRUE, val |-> v, err |-> ""]
Err(e) == [ok |-> FALSE, val |-> "", err |-> e]

\* fs::read_to_string; ioOk is whether the operating system lets the read through.
read_to_string(f, p, ioOk) ==
    IF Kind(f, p) = "dir" THEN Err("Is a directory")
    ELSE IF Kind(f, p) = "absent" THEN Err("No such file or directory")
    ELSE IF ~ioOk THEN Err("Permission denied")
    ELSE Ok(f[p].content)

\* fs::create_dir_all; n is how many leading components the operating system
\* lets it create before failing (Len(dir) or more: no failure).
create_dir_all(f, dir, n) ==
    IF \E q \in Prefixes(dir) : Kind(f, q) = "file"
    THEN [ok |-> FALSE, err |-> "File exists", fs |-> f]
    ELSE LET made == {q \in Prefixes(dir) : Len(q) <= n /\ Kind(f, q) = "absent"}
             g == [q \in DOMAIN f |-> IF q \in made THEN Dir ELSE f[q]]
         IN  IF \A q \in Prefixes(dir) : Kind(g, q) = "dir"
             THEN [ok |-> TRUE, err |-> "", fs |-> g]
             ELSE [ok |-> FALSE, err |-> "Permission denied", fs |-> g]

\* fs_write opening the file for append instead of truncating it.
FsWriteAppend(f, p, data, fault) ==
    IF p = <<>> \/ Kind(f, p) = "dir" THEN [ok |-> FALSE, err |-> "Is a directory", fs |-> f]
    ELSE IF Kind(f, parent(p)[1]) # "dir"
    THEN [ok |-> FALSE, err |-> "No such file or directory", fs |-> f]
    ELSE [ok |-> TRUE, err |-> "", fs |-> [f EXCEPT ![p] = File(f[p].content \o data)]]

\* fs::write: create or truncate the file, then write the whole of data.
\* fault: "none", "open" (the open fails) or "write" (the write after the
\* truncation fails).
fs_write(f, p, data, fault) ==
    IF p = <<>> \/ Kind(f, p) = "dir" THEN [ok |-> FALSE, err |-> "Is a directory", fs |-> f]
    ELSE IF Kind(f, parent(p)[1]) # "dir"
    THEN [ok |-> FALSE, err |-> "No such file or directory", fs |-> f]
    ELSE IF fault = "open" THEN [ok |-> FALSE, err |-> "Permission denied", fs |-> f]
    ELSE IF fault = "write"
    THEN [ok |-> FALSE, err |-> "No space left on device", fs |-> [f EXCEPT ![p] = File("")]]
    ELSE [ok |-> TRUE, err |-> "", fs |-> [f EXCEPT ![p] = File(data)]]

----------------------------------------------------------------------------
(* Domain model and wire format *)

Card(token, memo, state, pan, cvv) ==
    [token |-> token, memo |-> memo, state |-> state, pan |-> pan, cvv |-> cvv]

\* The JSON text of a Card, as the service writes it: pan and cvv only when revealed.
CardJson(c) ==
    <<"{", "token", c.token, "memo", c.memo, "state", c.state>>
    \o (IF c.pan # None THEN <<"pan", c.pan[1]>> ELSE <<>>)
    \o (IF c.cvv # None THEN <<"cvv", c.cvv[1]>> ELSE <<>>) \o <<"}">>

RECURSIVE CardListJson(_)
CardListJson(cs) == IF cs = <<>> THEN <<>> ELSE CardJson(Head(cs)) \o CardListJson(Tail(cs))

\* The JSON text of a Cards page.
CardsJson(cs) == <<"{", "data", "[">> \o CardListJson(cs) \o <<"]", "total_pages", "1", "page", "1", "}">>

CardCreationPayload(name, amount) ==
    [card_type |-> "SINGLE_USE", memo |-> name, spend_limit |-> amount,
     spend_limit_duration |-> "TRANSACTION", state |-> "OPEN"]

\* Serialize without the rename of card_type.
ToJsonNoRename(payload) == payload

\* serde's Serialize of CardCreationPayload: card_type goes out as "type".
ToJson(payload) ==
    [type |-> payload.card_type, memo |-> payload.memo, spend_limit |-> payload.spend_limit,
     spend_limit_duration |-> payload.spend_limit_duration, state |-> payload.state]

----------------------------------------------------------------------------
(* ApiClient *)

\* Url::join of a relative endpoint onto a base that ends with "/".
join(base, endpoint) == base \o endpoint

AuthorizationHeaderBearer(key) == "Bearer " \o key

\* format!("api-key {}", self.api_key)
AuthorizationHeader(key) == "api-key " \o key

\* ApiClient::request up to the send: url, Authorization header, optional JSON body.
BuildRequest(method, endpoint, body, key) ==
    [method |-> method,
     url |-> join(BASE_URL, endpoint),
     authorization |-> Some(AuthorizationHeader(key)),
     content_type |-> IF body # None THEN Some("application/json") ELSE None,
     body |-> body]

\* ApiClient::get / ApiClient::list
GetCards(key) == BuildRequest("GET", "cards", None, key)
\* ApiClient::post / ApiClient::create_card
PostCard(payload, key) == BuildRequest("POST", "cards", Some(ToJson(payload)), key)

\* {text:?}: the text in quotes.
Debug(text) == <<"\"">> \o text \o <<"\"">>

TransportError == [kind |-> "transport_error", status |-> 0, body |-> <<>>, textOk |-> FALSE]

\* The answer to use after a transport error, were the request sent again.
AfterSendRetry(o) == IF o.kind = "transport_error" THEN "send" ELSE "done"

\* Where the run goes once request.send() has completed: an Err is propagated
\* by the ? operator to the handler's unwrap, a response runs into text().unwrap() and todo!().
AfterSend(o) == "done"

\* The panic message the run ends with after the outcome o of the send.
PanicAfterSend(o) ==
    IF o.kind = "transport_error" \/ ~o.textOk
    THEN MsgPanic("called Result::unwrap() on an Err value")
    ELSE MsgPanic("not yet implemented")

----------------------------------------------------------------------------
(* Command handlers *)

Credential(tag, val, err) == [tag |-> tag, val |-> val, err |-> err]

\* The credential branching without the exists() test, a missing file read as empty.
LoadCredentialUnchecked(f, e, ioOk) ==
    LET p == get_xdg_data_home(e) IN
    IF p = None THEN Credential("nopath", "", "")
    ELSE LET r == read_to_string(f, p[1], ioOk) IN
         IF r.ok THEN Credential("ok", r.val, "")
         ELSE IF ~exists(f, p[1]) THEN Credential("ok", "", "")
         ELSE Credential("error", "", r.err)

\* The credential branching shared by the list and the create handler.
LoadCredential(f, e, ioOk) ==
    LET p == get_xdg_data_home(e) IN
    IF p = None THEN Credential("nopath", "", "")
    ELSE IF ~exists(f, p[1]) THEN Credential("absent", "", "")
    ELSE LET r == read_to_string(f, p[1], ioOk) IN
         IF r.ok THEN Credential("ok", r.val, "") ELSE Credential("error", "", r.err)

RECURSIVE FilterOpenIgnoreCase(_)
FilterOpenIgnoreCase(cs) ==
    IF cs = <<>> THEN <<>>
    ELSE (IF Head(cs).state \in {"OPEN", "open"} THEN <<Head(cs)>> ELSE <<>>)
         \o FilterOpenIgnoreCase(Tail(cs))

\* cards.data.iter().filter_map(|card| if card.state == "OPEN" {Some(card.to_owned())} else {None}).collect()
RECURSIVE FilterOpen(_)
FilterOpen(cs) ==
    IF cs = <<>> THEN <<>>
    ELSE (IF Head(cs).state = "OPEN" THEN <<Head(cs)>> ELSE <<>>) \o FilterOpen(Tail(cs))

\* for card in open { println!("{}", card.memo) }
MemoLines(cs) == [i \in 1..Len(cs) |-> <<cs[i].memo>>]

AuthProceedsAlways(openOk) == TRUE

\* if open::that(auth_url).is_err() { ...; return; }
AuthProceeds(openOk) == openOk

\* The last n elements of s.
LastN(s, n) == IF Len(s) <= n THEN s ELSE SubSeq(s, Len(s) - n + 1, Len(s))

\* handle_auth_command as a function of the state it reads and of its inputs:
\* openOk (open::that succeeded), typed (what read_password returned, None for
\* an error), n and fault (the failures of create_dir_all and fs::write).
handle_auth_command(f, sv, e, openOk, typed, n, fault) ==
    LET base == [fs |-> f, saves |-> sv, stdout |-> <<MsgOpening>>, stderr |-> <<>>,
                 exit |-> "ok", browser |-> IF openOk THEN "opened" ELSE "failed",
                 prompted |-> FALSE, secret_key |-> None, xdg_data_path |-> None]
    IN
    IF ~AuthProceeds(openOk)
    THEN [base EXCEPT !.stderr = <<MsgOpenFailed>>]
    ELSE LET asked == [base EXCEPT !.stdout = <<MsgOpening, MsgPrompt>>, !.prompted = TRUE] IN
    IF typed = None
    THEN [asked EXCEPT !.exit = "panic",
                       !.stderr = <<MsgPanic("called Result::unwrap() on an Err value")>>]
    ELSE LET got == [asked EXCEPT !.secret_key = typed, !.xdg_data_path = get_xdg_data_home(e)]
             p == get_xdg_data_home(e)
         IN
    IF p = None
    THEN [got EXCEPT !.stdout = Append(@, MsgNoXdg)]
    ELSE LET d == parent(p[1])
             mk == IF d = None THEN [ok |-> TRUE, err |-> "", fs |-> f]
                   ELSE create_dir_all(f, d[1], n)
         IN
    IF ~mk.ok
    THEN [got EXCEPT !.fs = mk.fs, !.stderr = <<MsgMkdirFailed(mk.err)>>]
    ELSE LET w == fs_write(mk.fs, p[1], typed[1], fault) IN
    IF w.ok
    THEN [got EXCEPT !.fs = w.fs, !.stdout = Append(@, MsgSaved),
                     !.saves = [sv EXCEPT ![p[1]] = LastN(Append(@, typed[1]), MaxSaves)]]
    ELSE [got EXCEPT !.fs = w.fs, !.stderr = <<MsgSaveFailed(w.err)>>,
                     !.saves = IF w.fs = mk.fs THEN sv ELSE [sv EXCEPT ![p[1]] = <<>>]]

----------------------------------------------------------------------------
(* Inputs *)

Cmd(kind, name, amount) == [kind |-> kind, name |-> name, amount |-> amount]

\* The command lines: no argument, `default`, `auth`, `create <name> <amount>`.
Commands ==
    {Cmd("none", "", 0), Cmd("default", "", 0), Cmd("auth", "", 0)}
    \cup {Cmd("create", nm, a) : nm \in Names, a \in Amounts}

Faults == {"none", "open", "write"}
MkdirLimits == 0..Len(KeyRelPath)

SampleCardLists ==
    {<<>>,
     <<Card("t1", "Gas", "OPEN", None, None)>>,
     <<Card("t1", "Gas", "CLOSED", None, None),
       Card("t2", "Groceries", "OPEN", Some("4111111111111111"), Some("123"))>>}

Unauthorized == <<"{", "message", "Unauthorized", "}">>

\* The bodies of success responses.
Bodies ==
    {CardsJson(cs) : cs \in SampleCardLists}
    \cup {CardJson(Card("t3", "Gas", "OPEN", Some("4111111111111111"), Some("123")))}

\* What the network can answer: no answer at all, a response whose body cannot
\* be read, a refusal, or a success.
Outcomes ==
    {TransportError,
     [kind |-> "response", status |-> 200, body |-> <<>>, textOk |-> FALSE],
     [kind |-> "response", status |-> 401, body |-> Unauthorized, textOk |-> TRUE]}
    \cup [kind : {"response"}, status : {200}, body : Bodies, textOk : {TRUE}]

\* The file systems a run can start from: a consistent tree over FsPaths.
InitContents == {"sk_old_key"}
KeyEntries == {Absent, Dir} \cup {File(c) : c \in InitContents}

InitFs ==
    {[q \in FsPaths |->
        IF Len(q) = 1 /\ q \in KeyPaths THEN x
        ELSE IF q \in KeyPaths THEN (IF depth = Len(q) - 1 THEN k ELSE Absent)
        ELSE IF Len(q) <= depth THEN Dir ELSE Absent]
     : x \in KeyEntries, k \in KeyEntries, depth \in 0..(Len(KeyRelPath))}

----------------------------------------------------------------------------
(* The state machine *)

FreshRun ==
    /\ xdg_data_path' = None
    /\ api_key' = None
    /\ request' = None
    /\ sent' = <<>>
    /\ inflight' = {}
    /\ response' = None
    /\ stdout' = <<>>
    /\ browser' = "unopened"
    /\ prompted' = FALSE
    /\ secret_key' = None
    /\ cards' = None
    /\ open' = <<>>

Init ==
    /\ fs \in InitFs
    /\ saves = [q \in FsPaths |-> <<>>]
    /\ pc = "idle"
    /\ argv = Cmd("none", "", 0)
    /\ env \in Envs
    /\ xdg_data_path = None
    /\ api_key = None
    /\ request = None
    /\ sent = <<>>
    /\ inflight = {}
    /\ response = None
    /\ stdout = <<>>
    /\ stderr = <<>>
    /\ exit = "running"
    /\ browser = "unopened"
    /\ prompted = FALSE
    /\ secret_key = None
    /\ cards = None
    /\ open = <<>>

\* main: a new run of the program with command line c under environment e.
Main(c, e) ==
    /\ pc \in {"idle", "done"}
    /\ argv' = c
    /\ env' = e
    /\ FreshRun
    /\ IF c.kind = "default"
       THEN /\ pc' = "done"
            /\ exit' = "panic"
            /\ stderr' = <<MsgPanic("internal error: entered unreachable code")>>
       ELSE /\ pc' = (IF c.kind = "none" THEN "default" ELSE c.kind)
            /\ exit' = "running"
            /\ stderr' = <<>>
    /\ UNCHANGED <<fs, saves>>

\* The list and create handlers up to the request: load the key, build the
\* client and the request; without a key, print and return.
LoadAndBuild(flow) ==
    \E ioOk \in BOOLEAN :
        LET c == LoadCredential(fs, env, ioOk) IN
        /\ xdg_data_path' = get_xdg_data_home(env)
        /\ IF c.tag = "ok"
           THEN /\ api_key' = Some(c.val)
                /\ request' = Some(IF flow = "list" THEN GetCards(c.val)
                                    ELSE PostCard(CardCreationPayload(argv.name, argv.amount),
                                                  c.val))
                /\ pc' = "send"
                /\ UNCHANGED <<stdout, stderr, exit>>
           ELSE /\ pc' = "done"
                /\ exit' = "ok"
                /\ stdout' = (IF c.tag = "nopath" THEN Append(stdout, MsgNoXdg)
                              ELSE IF c.tag = "absent" THEN Append(stdout, MsgPleaseAuth)
                              ELSE stdout)
                /\ stderr' = (IF c.tag = "error" THEN Append(stderr, MsgReadError(c.err))
                              ELSE stderr)
                /\ UNCHANGED <<api_key, request>>
        /\ UNCHANGED <<fs, saves, argv, env, sent, inflight, response, browser, prompted,
                       secret_key, cards, open>>

HandleDefault ==
    /\ pc = "default"
    /\ LoadAndBuild("list")

HandleCreate ==
    /\ pc = "create"
    /\ LoadAndBuild("create")

HandleAuth ==
    /\ pc = "auth"
    /\ \E openOk \in BOOLEAN, typed \in {None} \cup {Some(s) : s \in Secrets},
          n \in MkdirLimits, fault \in Faults :
        LET r == handle_auth_command(fs, saves, env, openOk, typed, n, fault) IN
        /\ fs' = r.fs
        /\ saves' = r.saves
        /\ stdout' = r.stdout
        /\ stderr' = r.stderr
        /\ exit' = r.exit
        /\ browser' = r.browser
        /\ prompted' = r.prompted
        /\ secret_key' = r.secret_key
        /\ xdg_data_path' = r.xdg_data_path
    /\ pc' = "done"
    /\ UNCHANGED <<argv, env, api_key, request, sent, inflight, response, cards, open>>

\* request.send(): the built request goes onto the wire.
Send ==
    /\ pc = "send"
    /\ request # None
    /\ sent' = Append(sent, request[1])
    /\ inflight' = inflight \cup {request[1]}
    /\ pc' = "await"
    /\ UNCHANGED <<fs, saves, argv, env, xdg_data_path, api_key, request, response, stdout,
                   stderr, exit, browser, prompted, secret_key, cards, open>>

\* The send completes with outcome o; the rest of ApiClient::request and of
\* the handler runs.
Receive(o) ==
    /\ pc = "await"
    /\ inflight' = {}
    /\ response' = Some(o)
    /\ stdout' = (IF o.kind = "response" /\ o.textOk THEN Append(stdout, Debug(o.body))
                  ELSE stdout)
    /\ pc' = AfterSend(o)
    /\ IF pc' = "done"
       THEN /\ exit' = "panic"
            /\ stderr' = Append(stderr, PanicAfterSend(o))
       ELSE UNCHANGED <<exit, stderr>>
    /\ UNCHANGED <<fs, saves, argv, env, xdg_data_path, api_key, request, sent, browser,
                   prompted, secret_key, cards, open>>

Next ==
    \/ \E c \in Commands, e \in Envs : Main(c, e)
    \/ HandleDefault
    \/ HandleCreate
    \/ HandleAuth
    \/ Send
    \/ \E o \in Outcomes : Receive(o)

Spec == Init /\ [][Next]_vars

----------------------------------------------------------------------------
(* The list handler after `client.list().await.unwrap()`: a second           *)
(* specification that starts where list has returned Ok(cards), for the      *)
(* filter and the printing that follow it.                                   *)

\* A card whose memo is Groceries comes with its pan and cvv revealed.
CardShapes == [memo : Names, state : CardStates]

CardLists ==
    UNION {{[i \in 1..k |-> Card("tok" \o ToString(i), sh[i].memo, sh[i].state,
                                 IF sh[i].memo = "Gas" THEN None ELSE Some("4111111111111111"),
                                 IF sh[i].memo = "Gas" THEN None ELSE Some("123"))]
            : sh \in [1..k -> CardShapes]} : k \in 0..MaxCards}

HomeOnly == [XDG_DATA_HOME |-> None, HOME |-> Some(<<"home">>)]
HomeKeyPath == get_xdg_data_home(HomeOnly)[1]

InitFilter ==
    /\ \E cs \in CardLists :
        /\ cards = Some([data |-> cs, total_pages |-> 1, page |-> 1])
        /\ response = Some([kind |-> "response", status |-> 200, body |-> CardsJson(cs),
                            textOk |-> TRUE])
    /\ fs = [q \in FsPaths |-> IF q = HomeKeyPath THEN File("sk_live_abc")
                               ELSE IF q \in Prefixes(HomeKeyPath) THEN Dir ELSE Absent]
    /\ saves = [q \in FsPaths |-> <<>>]
    /\ pc = "listed"
    /\ argv = Cmd("none", "", 0)
    /\ env = HomeOnly
    /\ xdg_data_path = Some(HomeKeyPath)
    /\ api_key = Some("sk_live_abc")
    /\ request = Some(GetCards("sk_live_abc"))
    /\ sent = <<GetCards("sk_live_abc")>>
    /\ inflight = {}
    /\ stdout = <<>>
    /\ stderr = <<>>
    /\ exit = "running"
    /\ browser = "unopened"
    /\ prompted = FALSE
    /\ secret_key = None
    /\ open = <<>>

\* handle_default_command from the filter to its end.
PrintOpen ==
    /\ pc = "listed"
    /\ cards # None
    /\ open' = FilterOpen(cards[1].data)
    /\ stdout' = stdout \o MemoLines(open')
    /\ pc' = "done"
    /\ exit' = "ok"
    /\ UNCHANGED <<fs, saves, argv, env, xdg_data_path, api_key, request, sent, inflight,
                   response, stderr, browser, prompted, secret_key, cards>>

NextFilter == PrintOpen

SpecFilter == InitFilter /\ [][NextFilter]_vars

----------------------------------------------------------------------------
(* Properties *)

Lines == {stdout[i] : i \in 1..Len(stdout)} \cup {stderr[i] : i \in 1..Len(stderr)}
Tokens(line) == {line[i] : i \in 1..Len(line)}

\* The list or create handler has run its credential branching.
LoadDone == argv.kind \in {"none", "create"} /\ pc \in {"send", "await", "listed", "done"}

\* The path the handler resolved names nothing in the file system.
CredentialAbsent == xdg_data_path # None /\ ~exists(fs, xdg_data_path[1])

\* C1: in the list and create flows, when the credential path resolves and
\* nothing exists there, the run prints the guidance to run `card auth`, sends
\* no HTTP request at any point, and returns normally.
C1_AbsentKeyGivesGuidance ==
    (LoadDone /\ CredentialAbsent) =>
        /\ pc = "done"
        /\ exit = "ok"
        /\ stdout = <<MsgPleaseAuth>>
        /\ stderr = <<>>
        /\ request = None
        /\ sent = <<>>
        /\ inflight = {}

C1_Witness ==
    /\ argv.kind = "create"
    /\ pc = "done"
    /\ CredentialAbsent
    /\ stdout = <<MsgPleaseAuth>>
    /\ exit = "ok"

\* s ends with t.
EndsWith(s, t) == Len(t) <= Len(s) /\ SubSeq(s, Len(s) - Len(t) + 1, Len(s)) = t

\* The run is a list run whose GET was answered with a success status and a
\* well-formed Cards body.
ListAnswered ==
    /\ argv.kind = "none"
    /\ pc = "done"
    /\ api_key # None
    /\ response # None
    /\ response[1].kind = "response"
    /\ response[1].status = 200
    /\ response[1].textOk
    /\ \E cs \in SampleCardLists : response[1].body = CardsJson(cs)

\* C2: a list run whose key was read and whose GET was answered with a success
\* status and a well-formed Cards body prints the memo of each OPEN card, one
\* per line, and terminates normally.
C2_ListPrintsOpenMemos ==
    ListAnswered =>
        /\ exit = "ok"
        /\ \A cs \in SampleCardLists :
              response[1].body = CardsJson(cs) => EndsWith(stdout, MemoLines(FilterOpen(cs)))

OpenIdx(cs) == {i \in 1..Len(cs) : cs[i].state = "OPEN"}
\* The k-th smallest element of the set S of numbers.
Kth(S, k) == CHOOSE i \in S : Cardinality({j \in S : j <= i}) = k

\* C3: the filter of the list flow keeps exactly the cards whose state is the
\* string "OPEN" (exact, case-sensitive), each once, in their input order and
\* with every field unchanged.
C3_FilterKeepsExactlyOpen ==
    (pc = "done" /\ cards # None) =>
        LET cs == cards[1].data
            S == OpenIdx(cs)
        IN  /\ Len(open) = Cardinality(S)
            /\ \A k \in 1..Len(open) : open[k] = cs[Kth(S, k)]

C3_Witness ==
    /\ pc = "done"
    /\ cards # None
    /\ Len(cards[1].data) = 3
    /\ cards[1].data[1].state = "OPEN"
    /\ cards[1].data[2].state = "open"
    /\ cards[1].data[3].state = "OPEN"
    /\ cards[1].data[1].memo # cards[1].data[3].memo
    /\ open = <<cards[1].data[1], cards[1].data[3]>>

\* C4: every request sent carries an Authorization header whose value is
\* "api-key " followed by the content of the credential file of this run.
C4_AuthorizationHeader ==
    \A i \in 1..Len(sent) :
        /\ xdg_data_path # None
        /\ Kind(fs, xdg_data_path[1]) = "file"
        /\ sent[i].authorization = Some("api-key " \o fs[xdg_data_path[1]].content)

C4_Witness ==
    /\ Len(sent) = 1
    /\ sent[1].method = "GET"
    /\ sent[1].authorization = Some("api-key sk_live_abc")
    /\ fs[xdg_data_path[1]].content = "sk_live_abc"

PayloadKeys == {"type", "memo", "spend_limit", "spend_limit_duration", "state"}

\* C5: the create flow sends a POST to `cards` whose JSON body has exactly the
\* keys type, memo, spend_limit, spend_limit_duration, state, with type
\* SINGLE_USE, memo the name given, spend_limit the amount given,
\* spend_limit_duration TRANSACTION and state OPEN.
C5_CreatePayload ==
    \A i \in 1..Len(sent) :
        (argv.kind = "create" \/ sent[i].method = "POST") =>
            /\ argv.kind = "create"
            /\ sent[i].method = "POST"
            /\ sent[i].url = "https://api.privacy.com/v1/cards"
            /\ sent[i].content_type = Some("application/json")
            /\ sent[i].body # None
            /\ DOMAIN sent[i].body[1] = PayloadKeys
            /\ sent[i].body[1].type = "SINGLE_USE"
            /\ sent[i].body[1].memo = argv.name
            /\ sent[i].body[1].spend_limit = argv.amount
            /\ sent[i].body[1].spend_limit_duration = "TRANSACTION"
            /\ sent[i].body[1].state = "OPEN"

C5_Witness ==
    /\ argv = Cmd("create", "Groceries", 5000)
    /\ Len(sent) = 1
    /\ sent[1].method = "POST"
    /\ sent[1].body[1].memo = "Groceries"
    /\ sent[1].body[1].spend_limit = 5000

\* C6: after successful saves to a path, the file there holds exactly the
\* secret saved last, and a list or create run that loads that path gets
\* exactly that secret.
C6_LoadReturnsLastSave ==
    /\ \A q \in FsPaths : saves[q] # <<>> => fs[q] = File(saves[q][Len(saves[q])])
    /\ (LoadDone /\ api_key # None /\ saves[xdg_data_path[1]] # <<>>) =>
           api_key = Some(saves[xdg_data_path[1]][Len(saves[xdg_data_path[1]])])

C6_Witness ==
    /\ LoadDone
    /\ api_key # None
    /\ Len(saves[xdg_data_path[1]]) >= 2
    /\ saves[xdg_data_path[1]][1] = "sk_live_abc"
    /\ saves[xdg_data_path[1]][2] = "sk2"
    /\ api_key = Some("sk2")

\* The path the specification gives for an environment.
SpecPath(e) ==
    IF e.XDG_DATA_HOME # None THEN Some(e.XDG_DATA_HOME[1] \o <<"card", "key">>)
    ELSE IF e.HOME # None THEN Some(e.HOME[1] \o <<".local", "share", "card", "key">>)
    ELSE None

\* The handler of the run has resolved the credential path.
PathResolved ==
    \/ LoadDone
    \/ argv.kind = "auth" /\ pc = "done" /\ secret_key # None

\* C7: with XDG_DATA_HOME set the credential path is <XDG_DATA_HOME>/card/key,
\* otherwise with HOME set it is <HOME>/.local/share/card/key, otherwise it is
\* absent; every flow uses this path.
C7_PathResolution == PathResolved => xdg_data_path = SpecPath(env)

\* C8 as stated: a failure to open the browser is not fatal to the auth flow,
\* which still prompts for the secret and, the path resolving and the file
\* system not failing, saves it.
C8_OpenFailureNonFatal ==
    (argv.kind = "auth" /\ pc = "done" /\ browser = "failed") =>
        /\ prompted
        /\ (get_xdg_data_home(env) # None /\ secret_key # None /\ Len(stderr) <= 1) =>
               /\ stdout[Len(stdout)] = MsgSaved
               /\ fs[get_xdg_data_home(env)[1]] = File(secret_key[1])

\* C8 amended: a failure to open the browser is reported and ends the auth
\* flow at once: no prompt, no secret read, the file system untouched, and the
\* run returns normally.
C8_OpenFailureEndsAuth ==
    [][(pc = "auth" /\ browser' = "failed") =>
          /\ pc' = "done"
          /\ exit' = "ok"
          /\ ~prompted'
          /\ secret_key' = None
          /\ stdout' = <<MsgOpening>>
          /\ stderr' = <<MsgOpenFailed>>
          /\ fs' = fs
          /\ saves' = saves]_vars

C8_Witness ==
    /\ argv.kind = "auth"
    /\ pc = "done"
    /\ browser = "failed"
    /\ ~prompted
    /\ stderr = <<MsgOpenFailed>>

\* C9: no run prints the secret key, a pan or a cvv to stdout or stderr.
C9_NoSensitiveOutput ==
    \A line \in Lines : \A t \in Tokens(line) :
        /\ t \notin Pans \cup Cvvs
        /\ api_key # None => t # api_key[1]
        /\ secret_key # None => t # secret_key[1]

\* C10: a run sends at most one HTTP request (a GET in the list flow, a POST in
\* the create flow, none in the auth flow, none when the key is absent,
\* unreadable or its path unresolvable), never sends it again, and sends it
\* only after the key file was read; at most one request is on the wire.
C10_AtMostOneRequest ==
    /\ Len(sent) <= 1
    /\ Cardinality(inflight) <= 1
    /\ inflight # {} => pc = "await" /\ inflight = {sent[1]}
    /\ pc = "done" => inflight = {}
    /\ argv.kind \in {"auth", "default"} => sent = <<>>
    /\ sent # <<>> =>
          /\ sent[1].method = (IF argv.kind = "none" THEN "GET" ELSE "POST")
          /\ xdg_data_path # None
          /\ Kind(fs, xdg_data_path[1]) = "file"
          /\ api_key = Some(fs[xdg_data_path[1]].content)
    /\ (stdout # <<>> /\ stdout[1] \in {MsgNoXdg, MsgPleaseAuth}) => sent = <<>>
    /\ (stderr # <<>> /\ stderr[1][1] = "Error reading key file: ") => sent = <<>>

C10_Witness ==
    /\ pc = "done"
    /\ Len(sent) = 1
    /\ response = Some(TransportError)
    /\ exit = "panic"

====
